---- MODULE Spec2Model ----
(***************************************************************************)
(* Geometry decoding pipeline of the repository:                           *)
(*   - src/src/utils/geometry/wkbParser.ts  (hex WKB -> Polygon feature)   *)
(*   - src/unnamed/part_000                 (processGeometryColumn batch)  *)
(*   - src/src/utils/parsers/gmlParser.ts   (GML -> MultiPolygon features) *)
(*                                                                         *)
(* A hex string is a sequence of characters 0..16: 0..15 are the hex       *)
(* digits (case is not distinguished, toUpperCase is then a no-op) and 16  *)
(* is a blank.  A double is kept as the 16 hex digits of its little-endian *)
(* bytes, compared as IEEE-754 compares them.                              *)
(***************************************************************************)
EXTENDS Integers, Sequences, FiniteSets, TLC

VARIABLES
    path,           \* which entry point runs: "csv" or "gml"
    pc,             \* "start", "rows", "members", "done" (returned), "failed" (threw)
    data,           \* processGeometryColumn: the rows
    input,          \* parseGML: the gml:featureMember value of the document
    members,        \* parseGML: members
    pos,            \* number of rows / members the loop has consumed
    features,       \* features
    skippedRows,    \* processGeometryColumn: skippedRows
    attributes,     \* parseGML: attributes
    propertyKeys,   \* parseGML: propertyKeys, in insertion order
    orderedColumns, \* parseGML: metadata.orderedColumns of the result
    notifications,  \* what addNotification received
    lastCall,       \* history: argument and result of the last parseWKB call
    origin          \* history: origin[j] is the input position features[j] came from

vars == <<path, pc, data, input, members, pos, features, skippedRows,
          attributes, propertyKeys, orderedColumns, notifications, lastCall,
          origin>>

\* ------------------------------------------------------------------ bounds
MaxRows == 2
MaxMembers == 2

\* ------------------------------------------------------------ JS helpers
Min(a, b) == IF a < b THEN a ELSE b

Blank == 16

\* String.prototype.substring(a, b) for 0 <= a <= b (0-based, end exclusive,
\* both ends clamped to the length).
Substring(s, a, b) == SubSeq(s, Min(a, Len(s)) + 1, Min(b, Len(s)))

\* The value of at most four hex digits.
RECURSIVE HexVal(_)
HexVal(s) == IF s = <<>> THEN 0
             ELSE 16 * HexVal(SubSeq(s, 1, Len(s) - 1)) + s[Len(s)]

\* parseInt(s, 16) of a string of at most 8 hex digits.  NaN for the empty
\* string; otherwise the value, kept as two 16-bit halves so that the whole
\* unsigned 32-bit range is exact.
parseInt(s) ==
    IF s = <<>> THEN [nan |-> TRUE, hi |-> 0, lo |-> 0]
    ELSE LET n == Len(s) IN
         [nan |-> FALSE,
          hi  |-> IF n > 4 THEN HexVal(SubSeq(s, 1, n - 4)) ELSE 0,
          lo  |-> IF n > 4 THEN HexVal(SubSeq(s, n - 3, n)) ELSE HexVal(s)]

\* i < n for a small loop counter i and a parsed count n (false for NaN).
Less(i, n) == ~n.nan /\ (n.hi > 0 \/ i < n.lo)

\* n & 0x1FFFFFFF (NaN converts to 0).
Mask29(n) == IF n.nan THEN 0 ELSE (n.hi % 8192) * 65536 + n.lo

\* IEEE-754 view of the 16 hex digits of a little-endian double.
IsNaNBits(d) == /\ d[15] % 8 = 7 /\ d[16] = 15 /\ d[13] = 15
                /\ \E k \in 1..14 : k # 13 /\ d[k] # 0
IsZeroBits(d) == /\ \A k \in 1..14 : d[k] = 0
                 /\ d[15] % 8 = 0 /\ d[16] = 0
\* a !== b on two doubles
NumNe(a, b) == \/ IsNaNBits(a) \/ IsNaNBits(b)
               \/ (a # b /\ ~(IsZeroBits(a) /\ IsZeroBits(b)))

Null == [type |-> "Null"]
Thrown == [ok |-> FALSE]

\* ------------------------------------------------------ wkbParser.ts
WKBPolygon == 3

\* external collaborator ../coordinates/coordinateTransform: a pure total
\* function of the pair, here the identity-like reprojector
puwg1992ToWgs84(x, y) == [lat |-> y, lng |-> x]

\* /\s/g and /[^0-9A-Fa-f]/g removal: only hex digits survive
StripNonHex(s) == SelectSeq(s, LAMBDA c : c < Blank)
\* String.prototype.trim() leaves nothing
TrimIsEmpty(s) == \A k \in 1..Len(s) : s[k] = Blank

StartsWith01(s) == Len(s) >= 2 /\ s[1] = 0 /\ s[2] = 1

parseWKBHeader(wkbHex0) ==
    LET wkbHex == StripNonHex(wkbHex0)
        hasSRID == StartsWith01(wkbHex) /\ Len(wkbHex) >= 18
        headerStart == IF hasSRID THEN 18 ELSE 0
        byteOrder == parseInt(Substring(wkbHex, headerStart, headerStart + 2))
        type == parseInt(Substring(wkbHex, headerStart + 2, headerStart + 10))
    IN [byteOrder |-> byteOrder,
        type      |-> Mask29(type),
        hasSrid   |-> hasSRID,
        srid      |-> IF hasSRID THEN parseInt(Substring(wkbHex, 10, 18))
                      ELSE parseInt(<<>>)]

\* Buffer.from(.., 'hex').readDoubleLE(0): throws unless 8 whole bytes are there
readDouble(hex, offset) ==
    LET sub == Substring(hex, offset, offset + 16)
    IN IF Len(sub) < 16 THEN Thrown ELSE [ok |-> TRUE, value |-> sub]

\* the for loop of parseCoordinates, from iteration i on
RECURSIVE CoordLoop(_, _, _, _, _)
CoordLoop(wkbHex, currentOffset, numPoints, i, coordinates) ==
    IF ~Less(i, numPoints)
    THEN [ok |-> TRUE, coordinates |-> coordinates, offset |-> currentOffset]
    ELSE LET x == readDouble(wkbHex, currentOffset)
             y == readDouble(wkbHex, currentOffset + 16)
         IN IF ~x.ok \/ ~y.ok THEN Thrown
            ELSE LET p == puwg1992ToWgs84(x.value, y.value)
                 IN CoordLoop(wkbHex, currentOffset + 32, numPoints, i + 1,
                              Append(coordinates, <<p.lng, p.lat>>))

parseCoordinates(wkbHex, offset, numPoints) ==
    CoordLoop(wkbHex, offset, numPoints, 0, <<>>)

\* "Ensure ring is closed" of parsePolygon
CloseRingWKB(coordinates) ==
    IF Len(coordinates) >= 3
    THEN LET first == coordinates[1]
             last  == coordinates[Len(coordinates)]
         IN IF NumNe(first[1], last[1]) \/ NumNe(first[2], last[2])
            THEN Append(coordinates, first)
            ELSE coordinates
    ELSE coordinates

\* the for loop over the rings of parsePolygon, from iteration i on
RECURSIVE RingLoop(_, _, _, _, _)
RingLoop(wkbHex, offset, numRings, i, rings) ==
    IF ~Less(i, numRings)
    THEN [ok |-> TRUE,
          geometry |-> [type |-> "Polygon", coordinates |-> rings]]
    ELSE LET numPoints == parseInt(Substring(wkbHex, offset, offset + 8))
             r == parseCoordinates(wkbHex, offset + 8, numPoints)
         IN IF ~r.ok THEN Thrown
            ELSE RingLoop(wkbHex, r.offset, numRings, i + 1,
                          Append(rings, CloseRingWKB(r.coordinates)))

parsePolygon(wkbHex, offset) ==
    LET numRings == parseInt(Substring(wkbHex, offset, offset + 8))
    IN RingLoop(wkbHex, offset + 8, numRings, 0, <<>>)

\* the switch of parseWKB
Dispatch(header, wkbHex, offset) ==
    IF header.type = WKBPolygon
    THEN LET g == parsePolygon(wkbHex, offset)
         IN IF g.ok
            THEN [type |-> "Feature", geometry |-> g.geometry]
            ELSE Null
    ELSE Null

parseWKB(wkbHex0) ==
    IF wkbHex0 = <<>> \/ TrimIsEmpty(wkbHex0) THEN Null
    ELSE LET wkbHex == StripNonHex(wkbHex0)
             header == parseWKBHeader(wkbHex)
             offset == IF header.hasSrid THEN 18 ELSE 10
         IN Dispatch(header, wkbHex, offset)

\* ------------------------------------------- ordered property bags (JS objects)
\* An object with string keys is the sequence of its <<key, value>> entries
\* in insertion order.
HasKey(obj, k) == \E j \in 1..Len(obj) : obj[j][1] = k
Get(obj, k) == obj[CHOOSE j \in 1..Len(obj) : obj[j][1] = k][2]
Keys(obj) == [j \in 1..Len(obj) |-> obj[j][1]]
\* obj[k] = v: an existing key keeps its position
Put(obj, k, v) ==
    IF HasKey(obj, k)
    THEN [j \in 1..Len(obj) |-> IF obj[j][1] = k THEN <<k, v>> ELSE obj[j]]
    ELSE Append(obj, <<k, v>>)
\* { ...a, ...b }
RECURSIVE Spread(_, _)
Spread(a, b) == IF b = <<>> THEN a
                ELSE Spread(Put(a, b[1][1], b[1][2]), Tail(b))

\* `feature-${k}`
FeatureId(k) == "feature-" \o ToString(k)

\* ------------------------------------------------------ gmlParser.ts
\* external collaborator ../coordinates/coordinateTransform
mercatorToWgs84(x, y) == [lat |-> y, lng |-> x]

NaN == -1
Digits == <<"0", "1", "2", "3", "4", "5", "6", "7", "8", "9">>
IsDigit(c) == \E d \in 1..10 : Digits[d] = c
DigitVal(c) == (CHOOSE d \in 1..10 : Digits[d] = c) - 1

\* Number(tok) for a token over digits, "x" and ",": 0 for the empty token,
\* the decimal value of a digit string, NaN for anything else
RECURSIVE DecVal(_)
DecVal(t) == IF t = <<>> THEN 0
             ELSE 10 * DecVal(SubSeq(t, 1, Len(t) - 1)) + DigitVal(t[Len(t)])
Number(t) == IF \A k \in 1..Len(t) : IsDigit(t[k]) THEN DecVal(t) ELSE NaN
isFinite(n) == n # NaN

\* String.prototype.split(sep) for a one-character separator
RECURSIVE Split(_, _)
Split(s, sep) ==
    IF \E k \in 1..Len(s) : s[k] = sep
    THEN LET k == CHOOSE i \in 1..Len(s) :
                     s[i] = sep /\ \A j \in 1..(i - 1) : s[j] # sep
         IN <<SubSeq(s, 1, k - 1)>> \o Split(SubSeq(s, k + 1, Len(s)), sep)
    ELSE <<s>>

\* lines 25-32: text -> reprojected [lng, lat] pairs
ParsePair(pair) == LET parts == Split(pair, ",")
                   IN [j \in 1..Len(parts) |-> Number(parts[j])]
ValidCoord(coord) == Len(coord) = 2 /\ \A k \in 1..Len(coord) : isFinite(coord[k])
Reproject(coord) == LET p == mercatorToWgs84(coord[1], coord[2])
                    IN <<p.lng, p.lat>>
ParseCoordsText(coordsText) ==
    LET tokens == SelectSeq(Split(coordsText, " "), LAMBDA t : t # <<>>)
        coords == SelectSeq([j \in 1..Len(tokens) |-> ParsePair(tokens[j])],
                            ValidCoord)
    IN [j \in 1..Len(coords) |-> Reproject(coords[j])]

\* lines 34-42: a ring of at least 3 points is closed, anything else is null
CloseRingGML(coords) ==
    IF Len(coords) >= 3
    THEN IF coords[1][1] # coords[Len(coords)][1]
            \/ coords[1][2] # coords[Len(coords)][2]
         THEN Append(coords, coords[1])
         ELSE coords
    ELSE <<>>

\* the .map callback over one polygon member; <<>> stands for null
PolygonRing(polygon) ==
    IF polygon.coordsText = <<>> THEN <<>>
    ELSE CloseRingGML(ParseCoordsText(polygon.coordsText))

parseGMLGeometry(gmlGeometry) ==
    IF gmlGeometry.kind = "undefined" THEN Null
    ELSE IF gmlGeometry.kind = "MultiPolygon"
    THEN LET polygonMembers == gmlGeometry.polygonMember
             polygons == IF polygonMembers.isArray THEN polygonMembers.items
                         ELSE <<polygonMembers.value>>
             coordinates == SelectSeq([j \in 1..Len(polygons) |->
                                           PolygonRing(polygons[j])],
                                      LAMBDA r : r # <<>>)
         IN IF Len(coordinates) > 0
            THEN [type |-> "MultiPolygon", coordinates |-> <<coordinates>>]
            ELSE Null
    ELSE Null

\* key.replace('ogr:', '') on the element names of the inputs
StripOgr(key) ==
    CASE key = "ogr:id"       -> "id"
      [] key = "ogr:fid"      -> "fid"
      [] key = "ogr:name"     -> "name"
      [] key = "ogr:geometry" -> "geometry"
      [] OTHER                -> key

RECURSIVE ExtractLoop(_, _)
ExtractLoop(entries, properties) ==
    IF entries = <<>> THEN properties
    ELSE LET e == entries[1]
             rest == Tail(entries)
         IN IF e.key \in {"_attributes", "geometryProperty", "ogr:geometryProperty"}
            THEN ExtractLoop(rest, properties)
            ELSE IF e.kind \in {"text", "primitive"}
            THEN ExtractLoop(rest, Put(properties, StripOgr(e.key), e.value))
            ELSE ExtractLoop(rest, properties)

extractProperties(member) == ExtractLoop(member.entries, <<>>)

\* propertyKeys.add(key) for each key: a Set keeps first insertion order
RECURSIVE AddAll(_, _)
AddAll(set, keys) ==
    IF keys = <<>> THEN set
    ELSE AddAll(IF \E j \in 1..Len(set) : set[j] = keys[1] THEN set
                ELSE Append(set, keys[1]),
                Tail(keys))

\* properties.id || properties.fid || `feature-${index + 1}`
ResolveId(properties, index) ==
    IF HasKey(properties, "id") /\ Get(properties, "id") # "" THEN Get(properties, "id")
    ELSE IF HasKey(properties, "fid") /\ Get(properties, "fid") # ""
    THEN Get(properties, "fid")
    ELSE FeatureId(index + 1)

\* ------------------------------------------------------------ the inputs
\* hex text of one byte, of a 32-bit count (big- and little-endian) and of
\* little-endian doubles
Byte(b) == <<b \div 16, b % 16>>
U32BE(n) == Byte(0) \o Byte(0) \o Byte(0) \o Byte(n)
U32LE(n) == Byte(n) \o Byte(0) \o Byte(0) \o Byte(0)
Zeros6 == Byte(0) \o Byte(0) \o Byte(0) \o Byte(0) \o Byte(0) \o Byte(0)
Dbl0 == Zeros6 \o Byte(0) \o Byte(0)          \* 0.0
Dbl1 == Zeros6 \o Byte(240) \o Byte(63)       \* 1.0
DblNaN == Zeros6 \o Byte(248) \o Byte(127)    \* NaN
DblY3 == Byte(3) \o Byte(0) \o Byte(0) \o Byte(0) \o Byte(0) \o Byte(0)
         \o Byte(0) \o Byte(64)               \* 2.0000000000000013
P00 == Dbl0 \o Dbl0
P10 == Dbl1 \o Dbl0
P11 == Dbl1 \o Dbl1
P01 == Dbl0 \o Dbl1
Square4 == P00 \o P10 \o P11 \o P01

\* [order 01][type 3][1 ring][4 points] little-endian, the unit square
UnitSquareLE == Byte(1) \o U32LE(3) \o U32LE(1) \o U32LE(4) \o Square4
\* the same record with a 00 marker and big-endian type and counts
UnitSquareBE == Byte(0) \o U32BE(3) \o U32BE(1) \o U32BE(4) \o Square4
ClosedBE == Byte(0) \o U32BE(3) \o U32BE(1) \o U32BE(4)
            \o P00 \o P10 \o P11 \o P00
TwoPointBE == Byte(0) \o U32BE(3) \o U32BE(1) \o U32BE(2) \o P00 \o P10
TwoRingsBE == Byte(0) \o U32BE(3) \o U32BE(2)
              \o U32BE(3) \o P00 \o P10 \o P11
              \o U32BE(3) \o P00 \o P01 \o P11
FlaggedBE == Byte(0) \o Byte(32) \o Byte(0) \o Byte(0) \o Byte(3)
             \o U32BE(1) \o U32BE(3) \o P00 \o P10 \o P11
NaNRingBE == Byte(0) \o U32BE(3) \o U32BE(1) \o U32BE(3)
             \o DblNaN \o Dbl0 \o P10 \o P11
PointLE == Byte(1) \o U32LE(1) \o Dbl1 \o Dbl1
PointLE3 == Byte(1) \o U32LE(1) \o Dbl0 \o DblY3
PointBE == Byte(0) \o U32BE(1) \o Dbl1 \o Dbl1
NoRingCount == Byte(0) \o U32BE(3)
HalfRingCount == Byte(1) \o U32BE(3) \o <<0, 0, 0, 0, 0, 0, 1>>
NoPointCount == Byte(0) \o U32BE(3) \o U32BE(1)
MissingPoint == Byte(0) \o U32BE(3) \o U32BE(1) \o U32BE(4)
                \o P00 \o P10 \o P11
SpacedBE == <<Blank>> \o Byte(0) \o U32BE(3) \o <<Blank>> \o U32BE(1)
            \o U32BE(3) \o P00 \o P10 \o <<Blank>> \o P11
Blanks == <<Blank, Blank>>

WKBInputs == {UnitSquareLE, UnitSquareBE, ClosedBE, TwoPointBE, TwoRingsBE,
              FlaggedBE, NaNRingBE, PointLE, PointLE3, PointBE, NoRingCount,
              HalfRingCount, NoPointCount, MissingPoint, SpacedBE, Blanks,
              <<>>}

\* rows of the table: the geometry column and the other columns
geometryColumn == "geom"
Row(wkb, attrs) == << <<geometryColumn, wkb>> >> \o attrs
RowSet == {Row(w, <<>>) : w \in WKBInputs}
          \cup {Row(UnitSquareBE, a) :
                  a \in {<< <<"identyfikator", "A">> >>,
                         << <<"id", "X">> >>,
                         << <<"fid", "Y">>, <<"identyfikator", "B">> >>}}

RECURSIVE SeqsUpTo(_, _)
SeqsUpTo(S, n) ==
    IF n = 0 THEN {<<>>}
    ELSE LET shorter == SeqsUpTo(S, n - 1)
         IN shorter \cup {Append(q, x) : q \in shorter, x \in S}

\* coordinate texts of gml:coordinates
Pair(a, b) == <<a, ",", b>>
Sp == <<" ">>
Triangle == Pair("0", "0") \o Sp \o Pair("1", "0") \o Sp \o Pair("1", "1")
ClosedTriangle == Triangle \o Sp \o Pair("0", "0")
TwoPoints == Pair("0", "0") \o Sp \o Pair("1", "0")
OneBadToken == Pair("0", "0") \o Sp \o Pair("x", "1") \o Sp \o Pair("1", "0")
               \o Sp \o Pair("2", "1")
Ragged == <<"0", ",", "0", ",", "0">> \o Sp \o Sp \o <<"1", ",">> \o Sp
          \o Pair("1", "2") \o Sp \o <<"7">> \o Sp \o <<"1", "0", ",", "2">>

Polygon(text) == [coordsText |-> text]
Multi(pm) == [kind |-> "MultiPolygon", polygonMember |-> pm]
Arr(items) == [isArray |-> TRUE, items |-> items]
One(value) == [isArray |-> FALSE, value |-> value]
Undefined == [kind |-> "undefined"]

Geometries == {Multi(Arr(<<Polygon(Triangle), Polygon(ClosedTriangle)>>)),
               Multi(One(Polygon(ClosedTriangle))),
               Multi(Arr(<<Polygon(TwoPoints), Polygon(OneBadToken)>>)),
               Multi(Arr(<<Polygon(Ragged), Polygon(<<>>)>>)),
               Multi(One(Polygon(TwoPoints))),
               Multi(Arr(<<>>)),
               [kind |-> "Polygon"],
               Undefined}

Text(key, value) == [key |-> key, kind |-> "text", value |-> value]
Nested(key) == [key |-> key, kind |-> "object", value |-> ""]
EntryLists == {<<>>,
               <<Text("ogr:fid", "F1"), Text("ogr:name", "n1")>>,
               <<Text("ogr:name", "n2"), Text("ogr:id", "I1"),
                 Text("ogr:fid", "F2")>>,
               <<Nested("_attributes"), Text("ogr:geometry", "g"),
                 Nested("ogr:extra"), Text("name", "n3"),
                 Text("ogr:name", "n4")>>}

\* a gml:featureMember: with a feature element, or with _attributes alone
Member(entries, g, ogr) ==
    [hasFeature |-> TRUE, entries |-> entries,
     ogrGeometryProperty |-> IF ogr THEN g ELSE Undefined,
     geometryProperty    |-> IF ogr THEN Undefined ELSE g]
NoFeature == [hasFeature |-> FALSE]
MemberSet == {Member(e, g, TRUE) : e \in EntryLists, g \in Geometries}
             \cup {Member(<<>>, Multi(Arr(<<Polygon(Triangle)>>)), FALSE),
                   NoFeature}

\* ------------------------------------------------------- the state machine
NoCall == [called |-> FALSE, in |-> <<>>, out |-> Null]

Inputs == {[kind |-> "missing", items |-> <<>>]}
          \cup {[kind |-> "array", items |-> q] : q \in SeqsUpTo(MemberSet, MaxMembers)}
          \cup {[kind |-> "single", items |-> <<m>>] : m \in MemberSet}

Init ==
    /\ path \in {"csv", "gml"}
    /\ IF path = "csv"
       THEN /\ data \in SeqsUpTo(RowSet, MaxRows)
            /\ input = [kind |-> "missing", items |-> <<>>]
            /\ pc = "rows"
       ELSE /\ data = <<>>
            /\ input \in Inputs
            /\ pc = "start"
    /\ members = <<>>
    /\ pos = 0
    /\ features = <<>>
    /\ skippedRows = 0
    /\ attributes = <<>>
    /\ propertyKeys = <<>>
    /\ orderedColumns = <<>>
    /\ notifications = <<>>
    /\ lastCall = NoCall
    /\ origin = <<>>

\* a batch end that lets an empty batch through
NeverEmpty(feats) == FALSE
\* `features.length === 0` before the throw of both batch functions
EmptyResult(feats) == Len(feats) = 0

\* a key accumulation that runs only once the geometry has decoded
KeysOfDecoded(keys, properties, geometry) ==
    IF geometry = Null THEN keys ELSE AddAll(keys, Keys(properties))
\* Object.keys(properties).forEach(key => propertyKeys.add(key)), which runs
\* before the geometry of the member is looked at
AccumulateKeys(keys, properties, geometry) == AddAll(keys, Keys(properties))

\* row.identyfikator || `feature-${features.length + 1}`
RowId(row, feats) ==
    IF HasKey(row, "identyfikator") /\ Get(row, "identyfikator") # ""
    THEN Get(row, "identyfikator")
    ELSE FeatureId(Len(feats) + 1)

\* one iteration of `for (const row of data)` in processGeometryColumn
processGeometryColumnRow ==
    /\ path = "csv" /\ pc = "rows" /\ pos < Len(data)
    /\ LET row == data[pos + 1]
           present == HasKey(row, geometryColumn) /\ Get(row, geometryColumn) # <<>>
           wkbHex == IF present THEN Get(row, geometryColumn) ELSE <<>>
           feature == parseWKB(wkbHex)
       IN /\ lastCall' = IF present
                         THEN [called |-> TRUE, in |-> wkbHex, out |-> feature]
                         ELSE NoCall
          /\ IF present /\ feature # Null
             THEN /\ features' = Append(features,
                        [type |-> "Feature", geometry |-> feature.geometry,
                         properties |-> Put(row, "id", RowId(row, features))])
                  /\ origin' = Append(origin, pos + 1)
                  /\ UNCHANGED skippedRows
             ELSE /\ skippedRows' = skippedRows + 1
                  /\ UNCHANGED <<features, origin>>
    /\ pos' = pos + 1
    /\ UNCHANGED <<path, pc, data, input, members, attributes, propertyKeys,
                   orderedColumns, notifications>>

\* the end of processGeometryColumn: throw on no feature, else warn and return
processGeometryColumnEnd ==
    /\ path = "csv" /\ pc = "rows" /\ pos = Len(data)
    /\ IF EmptyResult(features)
       THEN /\ pc' = "failed"
            /\ UNCHANGED notifications
       ELSE /\ pc' = "done"
            /\ notifications' =
                 IF skippedRows > 0
                 THEN Append(notifications,
                             [type |-> "warning", skipped |-> skippedRows])
                 ELSE notifications
    /\ UNCHANGED <<path, data, input, members, pos, features, skippedRows,
                   attributes, propertyKeys, orderedColumns, lastCall, origin>>

ErrorNotification == [type |-> "error", skipped |-> 0]

\* parseGML up to the forEach: no or empty featureMember throws
parseGMLStart ==
    /\ path = "gml" /\ pc = "start"
    /\ IF input.kind = "missing" \/ (input.kind = "array" /\ Len(input.items) = 0)
       THEN /\ pc' = "failed"
            /\ notifications' = Append(notifications, ErrorNotification)
            /\ UNCHANGED members
       ELSE /\ pc' = "members"
            /\ members' = input.items
            /\ UNCHANGED notifications
    /\ UNCHANGED <<path, data, input, pos, features, skippedRows, attributes,
                   propertyKeys, orderedColumns, lastCall, origin>>

\* one call of the members.forEach callback, index = pos
parseGMLMember ==
    /\ path = "gml" /\ pc = "members" /\ pos < Len(members)
    /\ LET member == members[pos + 1]
           index == pos
       IN IF ~member.hasFeature
          THEN UNCHANGED <<features, attributes, propertyKeys, origin>>
          ELSE LET properties == extractProperties(member)
                   geometry == parseGMLGeometry(
                                   IF member.ogrGeometryProperty # Undefined
                                   THEN member.ogrGeometryProperty
                                   ELSE member.geometryProperty)
                   id == ResolveId(properties, index)
               IN /\ propertyKeys' = AccumulateKeys(propertyKeys, properties, geometry)
                  /\ IF geometry = Null
                     THEN UNCHANGED <<features, attributes, origin>>
                     ELSE /\ features' = Append(features,
                                [type |-> "Feature",
                                 properties |-> Spread(<< <<"id", id>> >>, properties),
                                 geometry |-> geometry])
                          /\ attributes' = Append(attributes,
                                Spread(<< <<"id", id>>, <<"geometry", geometry>> >>,
                                       properties))
                          /\ origin' = Append(origin, pos + 1)
    /\ pos' = pos + 1
    /\ UNCHANGED <<path, pc, data, input, members, skippedRows, orderedColumns,
                   notifications, lastCall>>

\* parseGML after the forEach: throw on no feature, else build the result
parseGMLEnd ==
    /\ path = "gml" /\ pc = "members" /\ pos = Len(members)
    /\ IF EmptyResult(features)
       THEN /\ pc' = "failed"
            /\ notifications' = Append(notifications, ErrorNotification)
            /\ UNCHANGED orderedColumns
       ELSE /\ pc' = "done"
            /\ orderedColumns' = <<"id", "geometry">> \o propertyKeys
            /\ UNCHANGED notifications
    /\ UNCHANGED <<path, data, input, members, pos, features, skippedRows,
                   attributes, propertyKeys, lastCall, origin>>

Next == \/ processGeometryColumnRow
        \/ processGeometryColumnEnd
        \/ parseGMLStart
        \/ parseGMLMember
        \/ parseGMLEnd

Spec == Init /\ [][Next]_vars

\* ================================================================ claims
\* what the claims speak of, stated on the inputs and results
RingsOf(f) == IF f.geometry.type = "Polygon" THEN f.geometry.coordinates
              ELSE f.geometry.coordinates[1]
\* the two numbers of a coordinate pair are the same values (a copy of a
\* pair is the same pair, also when a number of it is NaN)
SameNumber(a, b) == IF path = "csv" THEN a = b \/ ~NumNe(a, b) ELSE a = b
SamePair(a, b) == SameNumber(a[1], b[1]) /\ SameNumber(a[2], b[2])
RingClosed(ring) == Len(ring) > 0 => SamePair(ring[1], ring[Len(ring)])
\* the closure test of the decoder finds the ring closed
ClosedByTest(ring) ==
    /\ Len(ring) >= 3
    /\ IF path = "csv"
       THEN /\ ~NumNe(ring[1][1], ring[Len(ring)][1])
            /\ ~NumNe(ring[1][2], ring[Len(ring)][2])
       ELSE ring[1] = ring[Len(ring)]
CloseAgain(ring) == IF path = "csv" THEN CloseRingWKB(ring) ELSE CloseRingGML(ring)

\* the 4 bytes right after the order marker, read in the record's byte order
\* (marker 01: little-endian, marker 00: big-endian), low 29 bits
RecordTypeCode(hex) ==
    IF Len(hex) < 10 \/ hex[1] # 0 \/ hex[2] \notin {0, 1} THEN NaN
    ELSE IF hex[2] = 1
    THEN Mask29(parseInt(<<hex[9], hex[10], hex[7], hex[8],
                           hex[5], hex[6], hex[3], hex[4]>>))
    ELSE Mask29(parseInt(SubSeq(hex, 3, 10)))

\* the record the decoder dispatched as a Polygon ends before or inside its
\* ring count, a point count, or the coordinate pairs a point count declares
RECURSIVE RingsOverrun(_, _, _, _)
RingsOverrun(hex, offset, numRings, i) ==
    IF ~Less(i, numRings) THEN FALSE
    ELSE IF offset + 8 > Len(hex) THEN TRUE
    ELSE LET numPoints == parseInt(Substring(hex, offset, offset + 8))
         IN IF numPoints.hi > 0 \/ offset + 8 + 32 * numPoints.lo > Len(hex)
            THEN TRUE
            ELSE RingsOverrun(hex, offset + 8 + 32 * numPoints.lo, numRings, i + 1)
Overruns(hex, offset) ==
    IF offset + 8 > Len(hex) THEN TRUE
    ELSE RingsOverrun(hex, offset + 8,
                      parseInt(Substring(hex, offset, offset + 8)), 0)
DispatchedAsPolygon(hex) == parseWKBHeader(hex).type = WKBPolygon
BodyOffset(hex) == IF parseWKBHeader(hex).hasSrid THEN 18 ELSE 10

\* the raw attributes of the record a feature came from, and the id the
\* feature assembler is to give it
RawAttributes(k) == IF path = "csv" THEN data[k] ELSE extractProperties(members[k])
ExpectedId(k) ==
    LET raw == RawAttributes(k)
    IN IF HasKey(raw, "id") THEN Get(raw, "id")
       ELSE IF HasKey(raw, "fid") THEN Get(raw, "fid")
       ELSE FeatureId(k)

GeometryOf(member) ==
    parseGMLGeometry(IF member.ogrGeometryProperty # Undefined
                     THEN member.ogrGeometryProperty
                     ELSE member.geometryProperty)
Decodes(k) == IF path = "csv"
              THEN /\ HasKey(data[k], geometryColumn)
                   /\ parseWKB(Get(data[k], geometryColumn)) # Null
              ELSE members[k].hasFeature /\ GeometryOf(members[k]) # Null
Records == IF path = "csv" THEN data ELSE members
\* the positions among the first n records whose geometry decodes, ascending
RECURSIVE Survivors(_)
Survivors(n) == IF n = 0 THEN <<>>
                ELSE IF Decodes(n) THEN Append(Survivors(n - 1), n)
                ELSE Survivors(n - 1)
\* the attribute keys of the first n members in first-seen order, whatever
\* became of their geometry
RECURSIVE FirstSeenKeys(_)
FirstSeenKeys(n) ==
    IF n = 0 THEN <<>>
    ELSE IF members[n].hasFeature
    THEN AddAll(FirstSeenKeys(n - 1), Keys(extractProperties(members[n])))
    ELSE FirstSeenKeys(n - 1)
Distinct(q) == \A i, j \in 1..Len(q) : i # j => q[i] # q[j]

\* C1: every ring of every decoded geometry has its first pair equal to its
\* last pair, and closing it again leaves it unchanged.
C1_RingClosure ==
    \A j \in 1..Len(features) :
        \A r \in 1..Len(RingsOf(features[j])) :
            LET ring == RingsOf(features[j])[r]
            IN /\ RingClosed(ring)
               /\ ClosedByTest(ring) => CloseAgain(ring) = ring

\* C2: no decoded geometry holds a ring of fewer than 3 points.
C2_NoShortRing ==
    \A j \in 1..Len(features) :
        \A r \in 1..Len(RingsOf(features[j])) :
            Len(RingsOf(features[j])[r]) >= 3

\* C3: the little-endian unit square record [01][type 3][1 ring][4 points]
\* decodes to a Polygon with one ring of 5 points, the 5th equal to the 1st.
C3_UnitSquare ==
    (lastCall.called /\ lastCall.in = UnitSquareLE) =>
        /\ lastCall.out # Null
        /\ lastCall.out.geometry.type = "Polygon"
        /\ Len(lastCall.out.geometry.coordinates) = 1
        /\ Len(lastCall.out.geometry.coordinates[1]) = 5
        /\ lastCall.out.geometry.coordinates[1][5]
             = lastCall.out.geometry.coordinates[1][1]

\* C4: the column manifest of a completed parseGML is 'id', 'geometry', then
\* every attribute key met, and no string occurs in it twice.
C4_ManifestDistinct ==
    (path = "gml" /\ pc = "done") =>
        /\ Len(orderedColumns) >= 2
        /\ orderedColumns[1] = "id"
        /\ orderedColumns[2] = "geometry"
        /\ \A k \in 1..Len(FirstSeenKeys(Len(members))) :
              \E c \in 1..Len(orderedColumns) :
                  orderedColumns[c] = FirstSeenKeys(Len(members))[k]
        /\ Distinct(orderedColumns)

\* C5: a record whose type code is 1 (Point) yields no feature; its row is
\* counted as skipped and the batch goes on to the end.
C5_PointUnsupported ==
    /\ (lastCall.called /\ RecordTypeCode(StripNonHex(lastCall.in)) = 1) =>
          /\ lastCall.out = Null
          /\ skippedRows >= 1
          /\ (origin = <<>> \/ origin[Len(origin)] # pos)
    /\ (path = "csv" /\ pc \in {"done", "failed"}) => pos = Len(data)

\* C6: a batch in which no record's geometry decodes ends in the thrown
\* failure, and a batch that returns carries at least one feature.
C6_NoEmptySuccess ==
    /\ pc = "done" => Len(features) >= 1
    /\ (pc \in {"done", "failed"} /\ Survivors(Len(Records)) = <<>>) => pc = "failed"
C6_Witness ==
    /\ pc = "failed" /\ Len(Records) = MaxRows /\ pos = Len(Records)
    /\ Survivors(Len(Records)) = <<>>
    /\ \A k \in 1..Len(Records) : path = "gml" => members[k].hasFeature

\* C7: a feature's id is the raw 'id', else the raw 'fid', else 'feature-<k>'
\* for the record's 1-based position k in the input, and its attribute map
\* carries that id.
C7_FeatureId ==
    \A j \in 1..Len(features) :
        /\ HasKey(features[j].properties, "id")
        /\ Get(features[j].properties, "id") = ExpectedId(origin[j])

\* C8: a record dispatched as a Polygon whose declared counts overrun the
\* buffer yields no feature.
C8_OverrunFails ==
    (/\ lastCall.called
     /\ DispatchedAsPolygon(StripNonHex(lastCall.in))
     /\ Overruns(StripNonHex(lastCall.in), BodyOffset(StripNonHex(lastCall.in))))
        => lastCall.out = Null

\* C9: a record whose order marker is not 01 yields no feature.
C9_MarkerChecked ==
    (lastCall.called /\ ~StartsWith01(StripNonHex(lastCall.in)))
        => lastCall.out = Null

\* C10: in parseGML a member whose geometry fails adds nothing to features
\* or attributes, which stay index-aligned in source order, while its keys
\* enter the manifest at their first-seen position all the same.
C10_SkipKeepsKeys ==
    path = "gml" =>
        /\ Len(features) = Len(attributes)
        /\ origin = Survivors(pos)
        /\ \A j \in 1..Len(features) :
              /\ features[j].geometry = GeometryOf(members[origin[j]])
              /\ Get(attributes[j], "id") = Get(features[j].properties, "id")
              /\ \A e \in 1..Len(extractProperties(members[origin[j]])) :
                    LET kv == extractProperties(members[origin[j]])[e]
                    IN /\ HasKey(attributes[j], kv[1])
                       /\ Get(attributes[j], kv[1]) = kv[2]
                       /\ Get(features[j].properties, kv[1]) = kv[2]
        /\ propertyKeys = FirstSeenKeys(pos)
        /\ pc = "done" =>
              orderedColumns = <<"id", "geometry">> \o FirstSeenKeys(Len(members))
C10_Witness ==
    /\ path = "gml" /\ pc = "done" /\ Len(members) = MaxMembers
    /\ \E k \in 1..Len(members) :
          /\ members[k].hasFeature /\ ~Decodes(k)
          /\ \E e \in 1..Len(extractProperties(members[k])) :
                LET key == extractProperties(members[k])[e][1]
                IN /\ \E c \in 3..Len(orderedColumns) : orderedColumns[c] = key
                   /\ \A j \in 1..Len(attributes) : ~HasKey(attributes[j], key)

====
